---- MODULE Spec2Model ----
(***************************************************************************)
(* dvmcfggen: the channel/frequency plan engine (iden_table.py), the       *)
(* identifier validators (network_ids.py) and the trunked-system builder   *)
(* (trunking_manager.py over config_manager.py and templates.py).          *)
(*                                                                         *)
(* Number representation.  The Python code holds frequencies in Hz as int  *)
(* and spacing / input offset / bandwidth as IEEE-754 doubles.  The model  *)
(* holds the doubles as fixed-point integers:                              *)
(*    spacing       in units of 0.0001 kHz   (6.25 kHz    =     62500)     *)
(*    input_offset  in units of 0.0000001 MHz (-45.0 MHz  = -450000000)    *)
(*    bandwidth     in units of 0.01 kHz     (12.5 kHz    =      1250)     *)
(* so that int(x * 1000.0), int(x * 1000000.0) and the "%.2f" / "%.5f" /   *)
(* "%.1f" conversions are real conversions that lose digits.               *)
(***************************************************************************)
EXTENDS Integers, Sequences, FiniteSets, TLC

VARIABLES
    calc,        \* the last frequency calculation or identifier check: its
                 \* inputs and its result
    prev,        \* the channel-number call before it, when on the same entry
    entries,     \* IdenTable.entries: the dict, as a sequence in insertion order
    file,        \* the identity-plan file at the table's path
    backup,      \* the file at that path with ".bak" added
    warnings,    \* lines IdenTable.load skipped with a printed warning
    snapshot,    \* IdenTable.entries as it was at the last save
    idenOp,      \* the last IdenTable operation and its outcome
    cc_config,   \* TrunkingSystem.cc_config
    vc_configs,  \* TrunkingSystem.vc_configs
    disk,        \* the configuration files under base_dir
    built,       \* the arguments of the last create_system, and what happened since
    errors       \* the result of the last validate_system

vars == <<calc, prev, entries, file, backup, warnings, snapshot, idenOp,
          cc_config, vc_configs, disk, built, errors>>

idenVars == <<entries, file, backup, warnings, snapshot, idenOp>>
freqVars == <<calc, prev>>
trunkVars == <<cc_config, vc_configs, disk, built, errors>>

----------------------------------------------------------------------------
(* Results of a call: a returned value or a raised exception.              *)

Ok(v) == [ok |-> TRUE, val |-> v, err |-> "none", msg |-> "none"]
Raise(e, m) == [ok |-> FALSE, val |-> 0, err |-> e, msg |-> m]

Abs(x) == IF x < 0 THEN -x ELSE x
Sign(x) == IF x < 0 THEN -1 ELSE 1

\* Python int(a / b) for b # 0: the quotient truncated toward zero.
TruncDiv(a, b) == Sign(a) * Sign(b) * (Abs(a) \div Abs(b))

----------------------------------------------------------------------------
(* iden_table.py: constants                                                *)

MAX_FREQ_GAP == 30000000

\* digits after the point of the fixed-point representations (see the top)
SpacingDigits == 4
OffsetDigits == 7
BandwidthDigits == 2

Pow10(e) == CASE e = 0 -> 1 [] e = 1 -> 10 [] e = 2 -> 100 [] e = 3 -> 1000
              [] e = 4 -> 10000 [] e = 5 -> 100000 [] e = 6 -> 1000000
              [] e = 7 -> 10000000

\* fixed-point units per Hz: KHZ_HZ is 10^3 and HZ_MHZ is 10^6
SpacingUnitsPerHz == Pow10(SpacingDigits - 3)
OffsetUnitsPerHz == Pow10(OffsetDigits - 6)

(* IEEE-754: the doubles of the model's input domain whose product with    *)
(* 1000.0 (spacing) or 1000000.0 (input offset) falls short of the exact   *)
(* whole number, so that int() truncates to one less in magnitude:         *)
(*   2.01 * 1000.0 = 2009.9999999999998,                                   *)
(*   -33.55441 * 1000000.0 = -33554409.999999996.                          *)
FloatShortSpacing == {20100}
FloatShortOffset == {-335544100}

\* int(self.spacing * KHZ_HZ)
SpaceHz(spacing) ==
    Sign(spacing) * ((Abs(spacing) \div SpacingUnitsPerHz)
        - (IF spacing \in FloatShortSpacing THEN 1 ELSE 0))

\* int(self.input_offset * HZ_MHZ)
OffsetHz(input_offset) ==
    Sign(input_offset) * ((Abs(input_offset) \div OffsetUnitsPerHz)
        - (IF input_offset \in FloatShortOffset THEN 1 ELSE 0))

IdenEntry(channel_id, base_freq, spacing, input_offset, bandwidth) ==
    [channel_id |-> channel_id, base_freq |-> base_freq, spacing |-> spacing,
     input_offset |-> input_offset, bandwidth |-> bandwidth]

\* a channel number without the check against base + MAX_FREQ_GAP
calculate_channel_number_no_ceiling(entry, tx_freq) ==
    IF tx_freq < entry.base_freq
    THEN Raise("ValueError", "below base")
    ELSE IF SpaceHz(entry.spacing) = 0
         THEN Raise("ZeroDivisionError", "division by zero")
         ELSE Ok(TruncDiv(tx_freq - entry.base_freq, SpaceHz(entry.spacing)))

\* IdenEntry.calculate_channel_number
calculate_channel_number(entry, tx_freq) ==
    IF tx_freq < entry.base_freq
    THEN Raise("ValueError", "below base")
    ELSE IF tx_freq > entry.base_freq + MAX_FREQ_GAP
    THEN Raise("ValueError", "too far above base")
    ELSE LET space_hz == SpaceHz(entry.spacing)
             root_freq == tx_freq - entry.base_freq
         IN  IF space_hz = 0
             THEN Raise("ZeroDivisionError", "division by zero")
             ELSE Ok(TruncDiv(root_freq, space_hz))

\* IdenEntry.calculate_rx_frequency
calculate_rx_frequency(entry, tx_freq) ==
    LET offset_hz == OffsetHz(entry.input_offset)
        rx_freq == tx_freq + offset_hz
    IN  IF rx_freq < 0
        THEN Raise("ValueError", "negative")
        ELSE Ok(rx_freq)

----------------------------------------------------------------------------
(* iden_table.py: the band catalog.  tx_range and rx_range are in Hz here  *)
(* (the source holds them in MHz: 851.0 is 851000000).                     *)

\* a catalog order with the two UHF bands exchanged
PresetNamesHamFirst == <<"800mhz", "900mhz", "uhf-ham", "vhf", "vhf-hi", "uhf">>

\* the keys of BAND_PRESETS in declaration order
PresetNames == <<"800mhz", "900mhz", "uhf", "vhf", "vhf-hi", "uhf-ham">>

Band(base_freq, input_offset, tx_lo, tx_hi, rx_lo, rx_hi) ==
    [base_freq |-> base_freq, spacing |-> 62500, input_offset |-> input_offset,
     bandwidth |-> 1250, tx_range |-> <<tx_lo, tx_hi>>, rx_range |-> <<rx_lo, rx_hi>>]

BAND_PRESETS ==
    [n \in {PresetNames[i] : i \in 1..Len(PresetNames)} |->
        CASE n = "800mhz"  -> Band(851006250, -450000000, 851000000, 870000000, 806000000, 825000000)
          [] n = "900mhz"  -> Band(935001250, -390000000, 935000000, 960000000, 896000000, 901000000)
          [] n = "uhf"     -> Band(450000000, 50000000, 450000000, 470000000, 455000000, 475000000)
          [] n = "vhf"     -> Band(146000000, 6000000, 146000000, 148000000, 146600000, 148600000)
          [] n = "vhf-hi"  -> Band(150000000, 6000000, 150000000, 174000000, 155000000, 179000000)
          [] n = "uhf-ham" -> Band(430000000, 50000000, 430000000, 450000000, 435000000, 455000000)]

IsPreset(n) == n \in DOMAIN BAND_PRESETS

\* create_iden_entry_from_preset, for a preset of the catalog
create_iden_entry_from_preset(channel_id, preset) ==
    LET band == BAND_PRESETS[preset]
    IN  IdenEntry(channel_id, band.base_freq, band.spacing, band.input_offset,
                  band.bandwidth)


----------------------------------------------------------------------------
(* iden_table.py: calculate_channel_assignment                             *)

\* An optional argument: None, or a value.
None == [isNone |-> TRUE, v |-> 0]
Some(x) == [isNone |-> FALSE, v |-> x]
\* None, where the value would be a string
NoneStr == [isNone |-> TRUE, v |-> ""]
NoneSeq == [isNone |-> TRUE, v |-> << >>]

\* `channel_id or 0`
OrZero(channel_id) == IF channel_id.isNone THEN 0 ELSE channel_id.v

(* tx_freq_mhz is a double in MHz.  The model holds it as a whole number   *)
(* of Hz plus a flag saying that a fraction of a Hz follows, which         *)
(* int(tx_freq_mhz * HZ_MHZ) truncates away.                               *)
TxMhz(hz, frac) == [hz |-> hz, frac |-> frac]
ToHz(tx_freq_mhz) == tx_freq_mhz.hz

\* band['tx_range'][0] <= tx_freq_mhz <= band['tx_range'][1]
InTxRange(band, tx_freq_mhz) ==
    /\ band.tx_range[1] <= tx_freq_mhz.hz
    /\ \/ tx_freq_mhz.hz < band.tx_range[2]
       \/ tx_freq_mhz.hz = band.tx_range[2] /\ tx_freq_mhz.frac = 0

\* the body of both branches: channel number, then receive frequency
AssignmentFrom(entry, tx_freq_hz) ==
    LET ch_no == calculate_channel_number(entry, tx_freq_hz)
        rx_freq == calculate_rx_frequency(entry, tx_freq_hz)
    IN  IF ~ch_no.ok THEN ch_no
        ELSE IF ~rx_freq.ok THEN rx_freq
        ELSE Ok(<<entry.channel_id, ch_no.val, tx_freq_hz, rx_freq.val>>)

\* the loop over BAND_PRESETS.items(), from the i-th preset on
RECURSIVE ScanPresets(_, _, _)
ScanPresets(i, tx_freq_mhz, channel_id) ==
    IF i > Len(PresetNames)
    THEN Raise("ValueError", "no suitable band")
    ELSE LET band == BAND_PRESETS[PresetNames[i]]
             entry == create_iden_entry_from_preset(OrZero(channel_id), PresetNames[i])
             got == AssignmentFrom(entry, ToHz(tx_freq_mhz))
         IN  IF ~InTxRange(band, tx_freq_mhz)
             THEN ScanPresets(i + 1, tx_freq_mhz, channel_id)
             ELSE IF ~got.ok /\ got.err = "ValueError"
                  THEN ScanPresets(i + 1, tx_freq_mhz, channel_id)
                  ELSE got

calculate_channel_assignment(tx_freq_mhz, preset, channel_id) ==
    IF ~preset.isNone /\ preset.v # ""
    THEN IF ~IsPreset(preset.v)
         THEN Raise("ValueError", "unknown preset")
         ELSE AssignmentFrom(
                  create_iden_entry_from_preset(OrZero(channel_id), preset.v),
                  ToHz(tx_freq_mhz))
    ELSE ScanPresets(1, tx_freq_mhz, channel_id)

----------------------------------------------------------------------------
(* The frequency calculations as a state machine: a caller holds a list of *)
(* calls, each is made in turn.                                            *)

PresetEntries ==
    {create_iden_entry_from_preset(0, PresetNames[i]) : i \in 1..Len(PresetNames)}

\* entries an operator can type in: 2.01 kHz spacing, 12.5 Hz spacing with a
\* -33.55441 MHz offset, 0.5 Hz spacing with a 0.5 Hz offset, no spacing
CustomEntries ==
    { IdenEntry(1, 450000000, 20100, 50000000, 1250),
      IdenEntry(2, 450000000, 125, -335544100, 1250),
      IdenEntry(3, 450000000, 5, 5, 1250),
      IdenEntry(4, 450000000, 0, 0, 1250) }

FreqEntries == PresetEntries \cup CustomEntries

RangeEnds ==
    UNION {{BAND_PRESETS[n].tx_range[1], BAND_PRESETS[n].tx_range[2]} :
               n \in DOMAIN BAND_PRESETS}

TxSamples(e) ==
    {0, e.base_freq - 1, e.base_freq, e.base_freq + 6249, e.base_freq + 6250,
     e.base_freq + 12500, e.base_freq + 4038090,
     e.base_freq + MAX_FREQ_GAP, e.base_freq + MAX_FREQ_GAP + 1,
     146012500,
     -OffsetHz(e.input_offset) - 1, -OffsetHz(e.input_offset),
     -OffsetHz(e.input_offset) + 1}
    \cup RangeEnds

TxMhzSamples ==
    {TxMhz(hz, f) :
        hz \in RangeEnds \cup {146012500, 100000000, 851006249, 851006250,
                               935001250, 176000000, 176000001, 145999999},
        f \in {0, 1}}

PresetArgs == {NoneStr, Some(""), Some("nope")} \cup {Some(n) : n \in DOMAIN BAND_PRESETS}
ChannelIdArgs == {None, Some(0), Some(5)}

NoCalc == [op |-> "none"]

\* entry.calculate_channel_number(tx_freq); a second call on the same entry
\* keeps the first one in prev
CalcChannelNumber ==
    /\ \E e \in FreqEntries : \E tx \in TxSamples(e) :
          /\ \/ calc = NoCalc
             \/ calc.op = "chno" /\ calc.entry = e /\ prev = NoCalc
          /\ calc' = [op |-> "chno", entry |-> e, tx |-> tx,
                      res |-> calculate_channel_number(e, tx)]
          /\ prev' = calc
    /\ UNCHANGED <<idenVars, trunkVars>>

\* entry.calculate_rx_frequency(tx_freq)
CalcRxFrequency ==
    /\ calc = NoCalc
    /\ \E e \in FreqEntries : \E tx \in TxSamples(e) :
          calc' = [op |-> "rx", entry |-> e, tx |-> tx,
                   res |-> calculate_rx_frequency(e, tx)]
    /\ UNCHANGED <<prev, idenVars, trunkVars>>

\* calculate_channel_assignment(tx_freq_mhz, preset, channel_id)
CalcChannelAssignment ==
    /\ calc = NoCalc
    /\ \E m \in TxMhzSamples, p \in PresetArgs, c \in ChannelIdArgs :
          calc' = [op |-> "assign", tx_freq_mhz |-> m, preset |-> p,
                   channel_id |-> c,
                   res |-> calculate_channel_assignment(m, p, c)]
    /\ UNCHANGED <<prev, idenVars, trunkVars>>

----------------------------------------------------------------------------
(* iden_table.py: IdenTable.  The dict self.entries is a sequence of       *)
(* [key, value] pairs in insertion order (a Python dict iterates in        *)
(* insertion order; assigning to a key that is present keeps its place).   *)

Keys(d) == {d[i].key : i \in 1..Len(d)}
Get(d, k) == LET i == CHOOSE i \in 1..Len(d) : d[i].key = k IN d[i].value

\* self.entries[key] = value
DictSet(d, k, v) ==
    IF k \in Keys(d)
    THEN [i \in 1..Len(d) |-> IF d[i].key = k THEN [key |-> k, value |-> v] ELSE d[i]]
    ELSE Append(d, [key |-> k, value |-> v])

\* an add_entry that stores under any channel id
add_entry_unchecked(d, entry) == Ok(DictSet(d, entry.channel_id, entry))

\* IdenTable.add_entry: the table afterwards, and whether it raised
add_entry(d, entry) ==
    IF entry.channel_id < 0 \/ entry.channel_id > 15
    THEN Raise("ValueError", "channel id must be 0-15")
    ELSE Ok(DictSet(d, entry.channel_id, entry))

(* A file is a sequence of lines.  A line of text is held as the sequence  *)
(* of its comma-separated pieces, which is what line.split(',') makes of   *)
(* it; a line that starts with '#' is held whole.  A piece is an integer   *)
(* literal, a decimal literal with p digits after the point (its value is  *)
(* n / 10^p), nothing at all (as after a trailing comma), or any other     *)
(* text.                                                                   *)

IntLit(n) == [k |-> "int", n |-> n, p |-> 0, t |-> ""]
DecLit(n, p) == [k |-> "dec", n |-> n, p |-> p, t |-> ""]
Nothing == [k |-> "nothing", n |-> 0, p |-> 0, t |-> ""]
Text(t) == [k |-> "text", n |-> 0, p |-> 0, t |-> t]
Comment(t) == <<[k |-> "comment", n |-> 0, p |-> 0, t |-> t]>>

(* format(x, ".<p>f") of a double held in units of 10^-u: the nearest      *)
(* multiple of 10^(u-p) units, written with p decimals.  A double that is  *)
(* exactly half way (3.125, 6.25: the only ties of the model's inputs) is  *)
(* rounded to the even digit, as Python does.                              *)
RoundHalfEven(x, m) ==
    LET a == Abs(x)
        q == a \div m
        r == a % m
        up == (2 * r > m) \/ (2 * r = m /\ q % 2 = 1)
    IN  Sign(x) * (IF up THEN q + 1 ELSE q)

FormatFixed(x, u, p) == DecLit(RoundHalfEven(x, Pow10(u - p)), p)

\* IdenEntry.to_line
to_line(e) ==
    << IntLit(e.channel_id), IntLit(e.base_freq),
       FormatFixed(e.spacing, SpacingDigits, 2),
       FormatFixed(e.input_offset, OffsetDigits, 5),
       FormatFixed(e.bandwidth, BandwidthDigits, 1),
       Nothing >>

\* sorted(self.entries.keys())
RECURSIVE SortedSeq(_)
SortedSeq(S) ==
    IF S = {} THEN <<>>
    ELSE LET m == CHOOSE x \in S : \A y \in S : x <= y
         IN  <<m>> \o SortedSeq(S \ {m})

\* the keys in the order they were inserted
InsertionOrder(d) == [i \in 1..Len(d) |-> d[i].key]

Header ==
    << Comment("#"),
       Comment("# Identity Table - Frequency Bandplan"),
       Comment("# Generated by DVMCfg"),
       Comment("#"),
       Comment("# ChId,Base Freq (Hz),Spacing (kHz),Input Offset (MHz),Bandwidth (kHz),"),
       Comment("#") >>

\* the order in which IdenTable.save writes the entries
SaveOrder(d) == SortedSeq(Keys(d))

\* IdenTable.save: the content written
save(d) ==
    LET order == SaveOrder(d)
    IN  Header \o [i \in 1..Len(order) |-> to_line(Get(d, order[i]))]

\* int(part), float(part): a value, or ValueError
ParseInt(f) == IF f.k = "int" THEN Ok(f.n) ELSE Raise("ValueError", "invalid literal")
ParseFloat(f, u) ==
    CASE f.k = "int" -> Ok(f.n * Pow10(u))
      [] f.k = "dec" -> Ok(f.n * Pow10(u - f.p))
      [] OTHER -> Raise("ValueError", "could not convert")

IsComment(line) == Len(line) > 0 /\ line[1].k = "comment"
RECURSIVE NonEmptyParts(_)
NonEmptyParts(line) ==
    IF line = <<>> THEN <<>>
    ELSE IF Head(line).k = "nothing" THEN NonEmptyParts(Tail(line))
    ELSE <<Head(line)>> \o NonEmptyParts(Tail(line))

\* one pass of the loop of IdenTable.load over a line
LoadLine(st, line) ==
    LET parts == NonEmptyParts(line)
    IN  IF parts = <<>> \/ IsComment(line) THEN st
        ELSE IF Len(parts) < 5 THEN st
        ELSE LET id == ParseInt(parts[1])
                 bf == ParseInt(parts[2])
                 sp == ParseFloat(parts[3], SpacingDigits)
                 io == ParseFloat(parts[4], OffsetDigits)
                 bw == ParseFloat(parts[5], BandwidthDigits)
                 parsed == id.ok /\ bf.ok /\ sp.ok /\ io.ok /\ bw.ok
                 added == add_entry(st.entries,
                              IdenEntry(id.val, bf.val, sp.val, io.val, bw.val))
             IN  IF parsed /\ added.ok
                 THEN [st EXCEPT !.entries = added.val]
                 ELSE [st EXCEPT !.warnings = Append(@, line)]

RECURSIVE LoadLines(_, _)
LoadLines(st, lines) ==
    IF lines = <<>> THEN st
    ELSE LoadLines(LoadLine(st, Head(lines)), Tail(lines))

\* a load that does not clear the table first
load_keeping(d, lines) == LoadLines([entries |-> d, warnings |-> <<>>], lines)

\* IdenTable.load of an existing file: self.entries.clear(), then the loop
load(d, lines) == LoadLines([entries |-> <<>>, warnings |-> <<>>], lines)

\* the loop of IdenTable.find_entry_for_frequency from the i-th entry on:
\* the entry returned, None, or the exception that leaves the method
RECURSIVE FindFrom(_, _, _)
FindFrom(d, i, tx_freq) ==
    IF i > Len(d) THEN Ok(None)
    ELSE LET entry == d[i].value
         IN  IF entry.base_freq <= tx_freq /\ tx_freq <= entry.base_freq + MAX_FREQ_GAP
             THEN LET r == calculate_channel_number(entry, tx_freq)
                  IN  IF r.ok THEN Ok(Some(entry))
                      ELSE IF r.err = "ValueError" THEN FindFrom(d, i + 1, tx_freq)
                      ELSE r
             ELSE FindFrom(d, i + 1, tx_freq)

find_entry_for_frequency(d, tx_freq) == FindFrom(d, 1, tx_freq)

----------------------------------------------------------------------------
(* The identity table as a state machine: one IdenTable and the file at    *)
(* its path.                                                               *)

NoFile == [exists |-> FALSE, lines |-> <<>>]
FileOf(lines) == [exists |-> TRUE, lines |-> lines]
NoSnapshot == [taken |-> FALSE, entries |-> <<>>]

\* 800 MHz preset values: unchanged by the persisted precision
\* 3.125 kHz spacing, 0.600003 MHz offset, 6.25 kHz bandwidth: changed by it
IdenInputs ==
    {IdenEntry(id, 851006250, 62500, -450000000, 1250) : id \in {-1, 0, 3, 15, 16}}
    \cup {IdenEntry(id, 450000000, 31250, 6000030, 625) : id \in {0, 3, 15}}

\* table.add_entry(e)
AddEntry ==
    /\ \E e \in IdenInputs :
          LET r == add_entry(entries, e)
          IN  /\ entries' = IF r.ok THEN r.val ELSE entries
              /\ idenOp' = [op |-> "add", ok |-> r.ok, entry |-> e]
    /\ UNCHANGED <<file, backup, warnings, snapshot, freqVars, trunkVars>>

\* table.save(filepath): open(filepath, 'w') puts the new content in place
\* of what the file held; no other path is written
Save ==
    /\ file' = FileOf(save(entries))
    /\ snapshot' = [taken |-> TRUE, entries |-> entries]
    /\ idenOp' = [op |-> "save", ok |-> TRUE, over |-> file]
    /\ UNCHANGED <<entries, backup, warnings, freqVars, trunkVars>>

\* table.load(filepath): the table is cleared before the file is opened
Load ==
    /\ IF file.exists
       THEN LET st == load(entries, file.lines)
            IN  /\ entries' = st.entries
                /\ warnings' = st.warnings
                /\ idenOp' = [op |-> "load", ok |-> TRUE]
       ELSE /\ entries' = <<>>
            /\ warnings' = warnings
            /\ idenOp' = [op |-> "load", ok |-> FALSE]
    /\ UNCHANGED <<file, backup, snapshot, freqVars, trunkVars>>

(* Plan files that were not written by save: typed by hand or produced by  *)
(* another program.                                                        *)

\* "<id>,851006250,6.25,-45.00000,12.5,"
Line800(id) ==
    << IntLit(id), IntLit(851006250), DecLit(625, 2), DecLit(-4500000, 5),
       DecLit(125, 1), Nothing >>
\* "<id>,450000000,12.5,5,12.5": no trailing comma, an offset without a point
LineUhf(id) ==
    << IntLit(id), IntLit(450000000), DecLit(125, 1), IntLit(5), DecLit(125, 1) >>
\* "<id>,450000000,0.00,5.00000,12.5,": a spacing of nothing
LineZeroSpacing(id) ==
    << IntLit(id), IntLit(450000000), DecLit(0, 2), DecLit(500000, 5),
       DecLit(125, 1), Nothing >>
\* "garbage"
LineGarbage == << Text("garbage") >>
\* "3,851006250,6.25,-45.00000": four fields
LineShort == << IntLit(3), IntLit(851006250), DecLit(625, 2), DecLit(-4500000, 5) >>
\* "3,851006250,wide,-45.00000,12.5,": a spacing that is no number
LineBadField ==
    << IntLit(3), IntLit(851006250), Text("wide"), DecLit(-4500000, 5),
       DecLit(125, 1), Nothing >>
\* "6.25,851006250,6.25,-45.00000,12.5,": a channel id that is no integer
LineBadId ==
    << DecLit(625, 2), IntLit(851006250), DecLit(625, 2), DecLit(-4500000, 5),
       DecLit(125, 1), Nothing >>
LineBlank == << >>
LineCommas == << Nothing, Nothing, Nothing >>

PlanFiles ==
    { << Line800(0), LineGarbage >>,
      << Comment("# site plan"), LineBlank, Line800(3), LineShort, LineBadField,
         Line800(16), LineCommas, LineUhf(15) >>,
      << Line800(0), LineUhf(0), LineBadId, Line800(-1) >>,
      << LineZeroSpacing(5), LineUhf(3) >>,
      << LineUhf(3), LineZeroSpacing(5) >>,
      << LineGarbage >>,
      << >> }

\* the frequencies looked up: in the 800 MHz window, at the base and inside
\* the 450 MHz window, above it, and below every base
FindSamples == {851012500, 450000000, 460000000, 480000001, 100000000}

\* a file is put at the table's path from outside
PutFile ==
    /\ \E lines \in PlanFiles : file' = FileOf(lines)
    /\ snapshot' = NoSnapshot
    /\ idenOp' = [op |-> "put", ok |-> TRUE]
    /\ UNCHANGED <<entries, backup, warnings, freqVars, trunkVars>>

\* table.find_entry_for_frequency(tx_freq)
FindEntry ==
    /\ \E tx_freq \in FindSamples :
          idenOp' = [op |-> "find", ok |-> find_entry_for_frequency(entries, tx_freq).ok,
                     tx_freq |-> tx_freq,
                     res |-> find_entry_for_frequency(entries, tx_freq)]
    /\ UNCHANGED <<entries, file, backup, warnings, snapshot, freqVars, trunkVars>>

----------------------------------------------------------------------------
(* network_ids.py: the identifier validators.  Each returns the pair       *)
(* (is_valid, error_message); the message is held by its kind.  An         *)
(* argument is an integer or a value of another type.                      *)

DMR_COLOR_CODE_MIN == 0
DMR_COLOR_CODE_MAX == 15
P25_NAC_MIN == 0
P25_NAC_MAX == 3967
P25_NET_ID_MIN == 1
P25_NET_ID_MAX == 1048574
P25_SYS_ID_MIN == 1
P25_SYS_ID_MAX == 4094
P25_RFSS_ID_MIN == 1
P25_RFSS_ID_MAX == 254
P25_SITE_ID_MIN == 1
P25_SITE_ID_MAX == 254
NXDN_RAN_MIN == 0
NXDN_RAN_MAX == 63
NXDN_LOC_ID_MIN == 1
NXDN_LOC_ID_MAX == 16777215

DMRSiteModel == {"TINY", "SMALL", "LARGE", "HUGE"}

\* limits in which every site model has the bounds of SMALL
DMR_SITE_MODEL_LIMITS_all_small ==
    [m \in DMRSiteModel |-> [netId |-> <<1, 127>>, siteId |-> <<1, 31>>]]

DMR_SITE_MODEL_LIMITS ==
    [m \in DMRSiteModel |->
       CASE m = "TINY"  -> [netId |-> <<1, 511>>, siteId |-> <<1, 7>>]
         [] m = "SMALL" -> [netId |-> <<1, 127>>, siteId |-> <<1, 31>>]
         [] m = "LARGE" -> [netId |-> <<1, 31>>, siteId |-> <<1, 127>>]
         [] m = "HUGE"  -> [netId |-> <<1, 3>>, siteId |-> <<1, 1023>>]]

AnInt(n) == [isInt |-> TRUE, n |-> n]
NotAnInt == [isInt |-> FALSE, n |-> 0]

Valid == [valid |-> TRUE, error |-> ""]
Invalid(kind) == [valid |-> FALSE, error |-> kind]

\* the two tests every validator makes
CheckBounds(x, min_val, max_val) ==
    IF ~x.isInt THEN Invalid("must be an integer")
    ELSE IF x.n < min_val \/ x.n > max_val THEN Invalid("must be between")
    ELSE Valid

validate_dmr_color_code(color_code) ==
    CheckBounds(color_code, DMR_COLOR_CODE_MIN, DMR_COLOR_CODE_MAX)

validate_dmr_network_id(net_id, site_model) ==
    LET limits == DMR_SITE_MODEL_LIMITS[site_model]
    IN  CheckBounds(net_id, limits.netId[1], limits.netId[2])

validate_dmr_site_id(site_id, site_model) ==
    LET limits == DMR_SITE_MODEL_LIMITS[site_model]
    IN  CheckBounds(site_id, limits.siteId[1], limits.siteId[2])

\* a NAC check against the whole 12-bit range
validate_p25_nac_12bit(nac) == CheckBounds(nac, 0, 4095)

validate_p25_nac(nac) == CheckBounds(nac, P25_NAC_MIN, P25_NAC_MAX)
validate_p25_network_id(net_id) == CheckBounds(net_id, P25_NET_ID_MIN, P25_NET_ID_MAX)
validate_p25_system_id(sys_id) == CheckBounds(sys_id, P25_SYS_ID_MIN, P25_SYS_ID_MAX)
validate_p25_rfss_id(rfss_id) == CheckBounds(rfss_id, P25_RFSS_ID_MIN, P25_RFSS_ID_MAX)
validate_p25_site_id(site_id) == CheckBounds(site_id, P25_SITE_ID_MIN, P25_SITE_ID_MAX)
validate_nxdn_ran(ran) == CheckBounds(ran, NXDN_RAN_MIN, NXDN_RAN_MAX)
validate_nxdn_location_id(loc_id) == CheckBounds(loc_id, NXDN_LOC_ID_MIN, NXDN_LOC_ID_MAX)
validate_nxdn_site_id(site_id) == validate_nxdn_location_id(site_id)

(* The validators as a state machine: a caller checks one value at a time. *)
(* The values are those on either side of every bound of the module, and   *)
(* one that is not an integer.                                             *)

IdSamples ==
    {AnInt(n) : n \in {-1, 0, 1, 2, 3, 4, 7, 8, 15, 16, 31, 32, 63, 64, 127, 128,
                     254, 255, 511, 512, 1023, 1024, 3967, 3968, 4094, 4095,
                     1048574, 1048575, 16777215, 16777216}}
    \cup {NotAnInt}

Checked(validator, site_model, value, res) ==
    [op |-> "validate", validator |-> validator, site_model |-> site_model,
     value |-> value, res |-> res]

ValidateDmrColorCode ==
    /\ \E x \in IdSamples :
          calc' = Checked("dmr_color_code", "none", x, validate_dmr_color_code(x))
    /\ UNCHANGED <<prev, idenVars, trunkVars>>

ValidateDmrNetworkId ==
    /\ \E x \in IdSamples, m \in DMRSiteModel :
          calc' = Checked("dmr_network_id", m, x, validate_dmr_network_id(x, m))
    /\ UNCHANGED <<prev, idenVars, trunkVars>>

ValidateDmrSiteId ==
    /\ \E x \in IdSamples, m \in DMRSiteModel :
          calc' = Checked("dmr_site_id", m, x, validate_dmr_site_id(x, m))
    /\ UNCHANGED <<prev, idenVars, trunkVars>>

ValidateP25Nac ==
    /\ \E x \in IdSamples :
          calc' = Checked("p25_nac", "none", x, validate_p25_nac(x))
    /\ UNCHANGED <<prev, idenVars, trunkVars>>

ValidateP25NetworkId ==
    /\ \E x \in IdSamples :
          calc' = Checked("p25_network_id", "none", x, validate_p25_network_id(x))
    /\ UNCHANGED <<prev, idenVars, trunkVars>>

ValidateP25SystemId ==
    /\ \E x \in IdSamples :
          calc' = Checked("p25_system_id", "none", x, validate_p25_system_id(x))
    /\ UNCHANGED <<prev, idenVars, trunkVars>>

ValidateP25RfssId ==
    /\ \E x \in IdSamples :
          calc' = Checked("p25_rfss_id", "none", x, validate_p25_rfss_id(x))
    /\ UNCHANGED <<prev, idenVars, trunkVars>>

ValidateP25SiteId ==
    /\ \E x \in IdSamples :
          calc' = Checked("p25_site_id", "none", x, validate_p25_site_id(x))
    /\ UNCHANGED <<prev, idenVars, trunkVars>>

ValidateNxdnRan ==
    /\ \E x \in IdSamples :
          calc' = Checked("nxdn_ran", "none", x, validate_nxdn_ran(x))
    /\ UNCHANGED <<prev, idenVars, trunkVars>>

ValidateNxdnLocationId ==
    /\ \E x \in IdSamples :
          calc' = Checked("nxdn_location_id", "none", x, validate_nxdn_location_id(x))
    /\ UNCHANGED <<prev, idenVars, trunkVars>>

ValidateNxdnSiteId ==
    /\ \E x \in IdSamples :
          calc' = Checked("nxdn_site_id", "none", x, validate_nxdn_site_id(x))
    /\ UNCHANGED <<prev, idenVars, trunkVars>>

----------------------------------------------------------------------------
(* config_manager.py: DVMConfig.  The nested document self.config is held  *)
(* flat, as a function from the dotted key paths that are present to their *)
(* values; a value is Some(x), or None for a Python None.  Keys that no    *)
(* operation below reads or stamps differently per instance (log, info,    *)
(* lookup and transfer flags, ACL files, DFSI and modem settings) are left *)
(* out of the documents.                                                   *)

\* DVMConfig.get(key_path, default)
get(config, key_path, default) ==
    IF key_path \in DOMAIN config THEN config[key_path] ELSE default

(* key_path.split('.'): which key paths of the model lie below a key path  *)
(* (it is a proper prefix of them) and which lie above it (they are proper *)
(* prefixes of it).  No other key path of the model is a prefix of         *)
(* another.                                                                *)
Below(key_path) ==
    IF key_path = "system.config.controlCh"
    THEN {"system.config.controlCh.rpcAddress", "system.config.controlCh.rpcPort",
          "system.config.controlCh.rpcPassword", "system.config.controlCh.notifyEnable"}
    ELSE {}
Above(key_path) ==
    IF key_path = "network.id.value" THEN {"network.id"} ELSE {}

\* DVMConfig.set(key_path, value), when it returns: config[keys[-1]] = value
\* puts the value in place of whatever was there, a whole subtree included
set(config, key_path, value) ==
    [k \in (DOMAIN config \ Below(key_path)) \cup {key_path} |->
        IF k = key_path THEN value ELSE config[k]]

\* DVMConfig.set(key_path, value) raises TypeError: on the way to the parent
\* dict it came to a value that is not a dict
set_raises(config, key_path) == Above(key_path) \cap DOMAIN config # {}

\* a run of set calls, in order
RECURSIVE SetMany(_, _)
SetMany(config, kvs) ==
    IF kvs = <<>> THEN config
    ELSE SetMany(set(config, Head(kvs)[1], Head(kvs)[2]), Tail(kvs))

\* Python truth of a value that is None or a bool, an int, a str
TruthyBool(o) == ~o.isNone /\ o.v = TRUE
TruthyInt(o) == ~o.isNone /\ o.v # 0
TruthyStr(o) == ~o.isNone /\ o.v # ""

\* the strings of the model that ConfigValidator.validate_ip_address accepts
ValidIps == {"127.0.0.1", "0.0.0.0", "localhost", "10.0.0.5"}
validate_ip_address(ip) == ip \in ValidIps

validate_port(port) == 1 <= port /\ port <= 65535
validate_range(value, min_val, max_val) == min_val <= value /\ value <= max_val

\* a system.identity value: the system_identity prefix and the suffix stamped
Identity(prefix, role, idx) == [prefix |-> prefix, role |-> role, idx |-> idx]
StrLen(str) == CASE str = "SKYNET" -> 6 [] str = "DVM" -> 3 [] str = "" -> 0
                 [] str = "CC-P25" -> 6 [] str = "CC-DMR" -> 6 [] str = "VC" -> 2
IdentityLen(id) ==
    StrLen(id.prefix) + (CASE id.role = "CC" -> 3 [] id.role = "VC" -> 5 [] OTHER -> 0)
validate_identity(id) == IdentityLen(id) > 0 /\ IdentityLen(id) <= 32

If(c, item) == IF c THEN <<item>> ELSE <<>>

(* DVMConfig.validate: the list of error messages.  Its checks of         *)
(* network.presharedKey, system.cwId.callsign and system.config.secure.key *)
(* read keys that no operation below writes and that the template holds    *)
(* valid or absent: they add no message and are left out.                  *)
\* validate_port and validate_range compare their argument with integers:
\* a None that reaches them raises TypeError, which leaves validate
validate_raises(config) ==
    LET isNone(k) == get(config, k, Some(0)).isNone
    IN  \/ TruthyBool(get(config, "network.enable", None)) /\ isNone("network.port")
        \/ TruthyBool(get(config, "network.restEnable", None)) /\ isNone("network.restPort")
        \/ isNone("system.config.colorCode")
        \/ isNone("system.config.nac")
        \/ isNone("system.config.ran")
        \/ isNone("system.modem.rxLevel")
        \/ isNone("system.modem.txLevel")

\* DVMConfig.validate, when it returns: the list of messages
validate(config) ==
    LET g(k, d) == get(config, k, Some(d))
    IN  (IF TruthyBool(get(config, "network.enable", None))
         THEN If(~validate_ip_address(g("network.address", "").v), "Invalid network.address")
              \o If(~validate_port(g("network.port", 0).v), "Invalid network.port")
         ELSE <<>>)
        \o If(TruthyStr(g("network.rpcAddress", ""))
                /\ ~validate_ip_address(g("network.rpcAddress", "").v),
              "Invalid network.rpcAddress")
        \o If(TruthyInt(g("network.rpcPort", 0)) /\ ~validate_port(g("network.rpcPort", 0).v),
              "Invalid network.rpcPort")
        \o (IF TruthyBool(get(config, "network.restEnable", None))
            THEN If(~validate_ip_address(g("network.restAddress", "").v),
                    "Invalid network.restAddress")
                 \o If(~validate_port(g("network.restPort", 0).v), "Invalid network.restPort")
            ELSE <<>>)
        \o If(~validate_identity(g("system.identity", Identity("", "", 0)).v),
              "Invalid system.identity")
        \o If(~validate_range(g("system.config.colorCode", 1).v, 0, 15),
              "Invalid system.config.colorCode (must be 0-15)")
        \o If(~validate_range(g("system.config.nac", 0).v, 0, 4095),
              "Invalid system.config.nac (must be 0-4095)")
        \o If(~validate_range(g("system.config.ran", 0).v, 0, 63),
              "Invalid system.config.ran (must be 0-63)")
        \o If(~validate_range(g("system.modem.rxLevel", 0).v, 0, 100),
              "Invalid system.modem.rxLevel (must be 0-100)")
        \o If(~validate_range(g("system.modem.txLevel", 0).v, 0, 100),
              "Invalid system.modem.txLevel (must be 0-100)")

----------------------------------------------------------------------------
(* templates.py: the documents get_template returns when config.example.yml *)
(* is not found (get_minimal_fallback_config, then the customizations).     *)

get_minimal_fallback_config ==
    [k \in {"network.enable", "network.id", "network.address", "network.port",
            "network.password", "network.rpcAddress", "network.rpcPort",
            "network.rpcPassword", "system.identity", "system.config.channelId",
            "system.config.channelNo", "system.config.siteId",
            "system.config.dmrNetId", "system.modem.rxLevel", "system.modem.txLevel",
            "protocols.dmr.enable", "protocols.p25.enable"} |->
        CASE k = "network.enable" -> Some(TRUE)
          [] k = "network.id" -> Some(100000)
          [] k = "network.address" -> Some("127.0.0.1")
          [] k = "network.port" -> Some(62031)
          [] k = "network.password" -> Some("PASSWORD")
          [] k = "network.rpcAddress" -> Some("127.0.0.1")
          [] k = "network.rpcPort" -> Some(9890)
          [] k = "network.rpcPassword" -> Some("ULTRA-VERY-SECURE-DEFAULT")
          [] k = "system.identity" -> Some(Identity("DVM", "", 0))
          [] k = "system.config.channelId" -> Some(1)
          [] k = "system.config.channelNo" -> Some(1)
          [] k = "system.config.siteId" -> Some(1)
          [] k = "system.config.dmrNetId" -> Some(1)
          [] k = "system.modem.rxLevel" -> Some(50)
          [] k = "system.modem.txLevel" -> Some(50)
          [] k = "protocols.dmr.enable" -> Some(TRUE)
          [] k = "protocols.p25.enable" -> Some(TRUE)]

\* get_template(template_name): apply_template_customizations on the base
get_template(template_name) ==
    CASE template_name = "control-channel-p25" ->
            SetMany(get_minimal_fallback_config,
                << <<"system.identity", Some(Identity("CC-P25", "", 0))>>,
                   <<"protocols.dmr.enable", Some(FALSE)>>,
                   <<"protocols.p25.enable", Some(TRUE)>> >>)
      [] template_name = "control-channel-dmr" ->
            SetMany(get_minimal_fallback_config,
                << <<"system.identity", Some(Identity("CC-DMR", "", 0))>>,
                   <<"protocols.dmr.enable", Some(TRUE)>>,
                   <<"protocols.p25.enable", Some(FALSE)>> >>)
      [] template_name = "voice-channel" ->
            SetMany(get_minimal_fallback_config,
                << <<"system.identity", Some(Identity("VC", "", 0))>>,
                   <<"protocols.dmr.enable", Some(TRUE)>>,
                   <<"protocols.p25.enable", Some(TRUE)>> >>)

----------------------------------------------------------------------------
(* trunking_manager.py: TrunkingSystem                                     *)

\* the files under base_dir: a function from the names that exist to their
\* content; a name is the role, the ordinal and whether it is the .bak
CcFile == [role |-> "cc", idx |-> 0, bak |-> FALSE]
VcFile(i) == [role |-> "vc", idx |-> i, bak |-> FALSE]
BakOf(name) == [name EXCEPT !.bak = TRUE]

\* DVMConfig.save(path): rename an existing file to .bak, then write
save_config(files, name, config) ==
    LET renamed == IF name \in DOMAIN files
                   THEN [n \in (DOMAIN files \ {name}) \cup {BakOf(name)} |->
                            IF n = BakOf(name) THEN files[name] ELSE files[n]]
                   ELSE files
    IN  [n \in DOMAIN renamed \cup {name} |->
            IF n = name THEN config ELSE renamed[n]]

\* the default vc_channels of create_system (vc_channels is None)
DefaultVcChannels(a) ==
    [i \in 1..a.vc_count |->
        [channel_id |-> a.cc_channel_id, channel_no |-> a.cc_channel_no + i]]

\* a resolution that takes the defaults whatever the caller supplied
VcChannels_ignoring_supplied(a) == DefaultVcChannels(a)

\* vc_channels after the `if vc_channels is None` block
VcChannels(a) == IF a.vc_channels.isNone THEN DefaultVcChannels(a) ELSE a.vc_channels.v

\* the `if x is not None: config.set(...)` block of the shared identifiers
SharedIds(a) ==
    If(~a.site_id.isNone, <<"system.config.siteId", a.site_id>>)
    \o If(~a.nac.isNone, <<"system.config.nac", a.nac>>)
    \o If(~a.color_code.isNone, <<"system.config.colorCode", a.color_code>>)
    \o If(~a.dmr_net_id.isNone, <<"system.config.dmrNetId", a.dmr_net_id>>)
    \o If(~a.net_id.isNone, <<"system.config.netId", a.net_id>>)
    \o If(~a.sys_id.isNone, <<"system.config.sysId", a.sys_id>>)
    \o If(~a.rfss_id.isNone, <<"system.config.rfssId", a.rfss_id>>)
    \o If(~a.ran.isNone, <<"system.config.ran", a.ran>>)

\* a roster in which every entry has the control channel's RPC port
VoiceChannelList_one_port(a) ==
    [i \in 1..a.vc_count |->
        [channelId |-> VcChannels(a)[i].channel_id,
         channelNo |-> VcChannels(a)[i].channel_no,
         rpcAddress |-> "127.0.0.1",
         rpcPort |-> a.base_rpc_port,
         rpcPassword |-> a.fne_password]]

\* the roster the control channel gets: one entry per voice channel
VoiceChannelList(a) ==
    [i \in 1..a.vc_count |->
        [channelId |-> VcChannels(a)[i].channel_id,
         channelNo |-> VcChannels(a)[i].channel_no,
         rpcAddress |-> "127.0.0.1",
         rpcPort |-> a.base_rpc_port + (i - 1) + 1,
         rpcPassword |-> a.fne_password]]

\* create_system: the control channel configuration
ControlConfig(a) ==
    SetMany(get_template(IF a.protocol = "p25" THEN "control-channel-p25"
                         ELSE "control-channel-dmr"),
        << <<"system.identity", Some(Identity(a.system_identity, "CC", 0))>>,
           <<"network.id", Some(a.base_peer_id)>>,
           <<"network.address", Some(a.fne_address)>>,
           <<"network.port", Some(a.fne_port)>>,
           <<"network.password", Some(a.fne_password)>>,
           <<"network.rpcPort", Some(a.base_rpc_port)>>,
           <<"network.rpcPassword", Some(a.rpc_password)>> >>
        \o (IF ~a.rest_password.isNone
            THEN << <<"network.restEnable", Some(TRUE)>>,
                    <<"network.restPort", Some(a.base_rest_port)>>,
                    <<"network.restPassword", a.rest_password>> >>
            ELSE << <<"network.restEnable", Some(FALSE)>> >>)
        \o << <<"system.config.channelId", Some(a.cc_channel_id)>>,
              <<"system.config.channelNo", Some(a.cc_channel_no)>> >>
        \o SharedIds(a)
        \o << <<"system.config.voiceChNo", Some(VoiceChannelList(a))>> >>)

\* a peer id counted from 0
vc_peer_id_off_by_one(a, vc_index) == a.base_peer_id + vc_index - 1

\* the peer id and the RPC port of voice channel vc_index
vc_peer_id(a, vc_index) == a.base_peer_id + vc_index
vc_rpc_port(a, vc_index) == a.base_rpc_port + vc_index

\* create_system: the configuration of voice channel vc_index
VoiceConfig(a, vc_index) ==
    SetMany(get_template("voice-channel"),
        << <<"system.identity", Some(Identity(a.system_identity, "VC", vc_index))>>,
           <<"network.id", Some(vc_peer_id(a, vc_index))>>,
           <<"network.address", Some(a.fne_address)>>,
           <<"network.port", Some(a.fne_port)>>,
           <<"network.password", Some(a.fne_password)>>,
           <<"network.rpcPort", Some(vc_rpc_port(a, vc_index))>>,
           <<"network.rpcPassword", Some(a.rpc_password)>> >>
        \o (IF ~a.rest_password.isNone
            THEN << <<"network.restEnable", Some(TRUE)>>,
                    <<"network.restPort",
                      IF TruthyStr(a.rest_password)
                      THEN Some(a.base_rest_port + vc_index) ELSE None>>,
                    <<"network.restPassword", a.rest_password>> >>
            ELSE << <<"network.restEnable", Some(FALSE)>> >>)
        \o << <<"system.config.channelId", Some(VcChannels(a)[vc_index].channel_id)>>,
              <<"system.config.channelNo", Some(VcChannels(a)[vc_index].channel_no)>> >>
        \o SharedIds(a)
        \o (IF a.protocol = "p25"
            THEN << <<"protocols.p25.enable", Some(TRUE)>>,
                    <<"protocols.dmr.enable", Some(FALSE)>> >>
            ELSE << <<"protocols.dmr.enable", Some(TRUE)>>,
                    <<"protocols.p25.enable", Some(FALSE)>> >>)
        \o << <<"system.config.controlCh.rpcAddress", Some("127.0.0.1")>>,
              <<"system.config.controlCh.rpcPort", Some(a.base_rpc_port)>>,
              <<"system.config.controlCh.rpcPassword", Some(a.fne_password)>>,
              <<"system.config.controlCh.notifyEnable", Some(TRUE)>> >>)

\* the loop `for i in range(vc_count)` of create_system, from vc_index on:
\* append the voice configuration to self.vc_configs and save it
RECURSIVE CreateVoiceChannels(_, _, _)
CreateVoiceChannels(a, vc_index, st) ==
    IF vc_index > a.vc_count THEN st
    ELSE CreateVoiceChannels(a, vc_index + 1,
            [vcs |-> Append(st.vcs, VoiceConfig(a, vc_index)),
             files |-> save_config(st.files, VcFile(vc_index), VoiceConfig(a, vc_index))])

\* create_system(**a) on a manager holding vcs, over the files: what it leaves
create_system(a, vcs, files) ==
    LET st == CreateVoiceChannels(a, 1,
                  [vcs |-> vcs, files |-> save_config(files, CcFile, ControlConfig(a))])
    IN  [cc |-> ControlConfig(a), vcs |-> st.vcs, files |-> st.files]

\* the voice channel loop of create_system when path.rename raises on the
\* file named failing: the instance is in vc_configs by then, its file and
\* those of the later instances are not written
RECURSIVE CreateVoiceChannelsUntil(_, _, _, _)
CreateVoiceChannelsUntil(a, vc_index, st, failing) ==
    IF vc_index > a.vc_count THEN st
    ELSE IF VcFile(vc_index) = failing
    THEN [st EXCEPT !.vcs = Append(@, VoiceConfig(a, vc_index))]
    ELSE CreateVoiceChannelsUntil(a, vc_index + 1,
            [vcs |-> Append(st.vcs, VoiceConfig(a, vc_index)),
             files |-> save_config(st.files, VcFile(vc_index), VoiceConfig(a, vc_index))],
            failing)

\* a build that puts every file back when a rename fails
create_system_rolled_back(a, vcs, files, failing) ==
    [cc |-> ControlConfig(a), vcs |-> vcs, files |-> files]

\* create_system(**a) left by the OSError of path.rename on the existing
\* file named failing: what it leaves
create_system_rename_fails(a, vcs, files, failing) ==
    IF failing = CcFile
    THEN [cc |-> ControlConfig(a), vcs |-> vcs, files |-> files]
    ELSE LET st == CreateVoiceChannelsUntil(a, 1,
                      [vcs |-> vcs, files |-> save_config(files, CcFile, ControlConfig(a))],
                      failing)
         IN  [cc |-> ControlConfig(a), vcs |-> st.vcs, files |-> st.files]

\* a scan that takes every voice channel file from vc<i> on, in ordinal
\* order, whether or not an ordinal before it is missing
LoadVoiceChannelsPastGaps(files, i) ==
    LET ords == SortedSeq({n.idx : n \in {m \in DOMAIN files :
                                            m.role = "vc" /\ ~m.bak /\ m.idx >= i}})
    IN  [j \in 1..Len(ords) |-> files[VcFile(ords[j])]]

\* an update that sets the key path in the control channel only
update_all_control_only(cc, vcs, key_path, value) ==
    [ok |-> TRUE, cc |-> set(cc, key_path, value), vcs |-> vcs]

\* update_all(key_path, value): cc_config.set, then vc.set for each voice
\* channel in order, up to the first set that raises
update_all(cc, vcs, key_path, value) ==
    IF set_raises(cc, key_path) THEN [ok |-> FALSE, cc |-> cc, vcs |-> vcs]
    ELSE LET bad == {i \in 1..Len(vcs) : set_raises(vcs[i], key_path)}
             stop == IF bad = {} THEN Len(vcs) + 1
                     ELSE CHOOSE i \in bad : \A j \in bad : i <= j
         IN  [ok |-> bad = {},
              cc |-> set(cc, key_path, value),
              vcs |-> [i \in 1..Len(vcs) |->
                         IF i < stop THEN set(vcs[i], key_path, value) ELSE vcs[i]]]

\* the loop `for i, vc in enumerate(self.vc_configs, 1)` of save_all, from
\* the i-th voice channel on
RECURSIVE SaveVoiceChannels(_, _, _)
SaveVoiceChannels(vcs, i, files) ==
    IF i > Len(vcs) THEN files
    ELSE SaveVoiceChannels(vcs, i + 1, save_config(files, VcFile(i), vcs[i]))

\* save_all(): save the control channel, save each voice channel, then call
\* self._create_summary(), which TrunkingSystem does not define: the call
\* raises AttributeError once every file is written
save_all(cc, vcs, files) ==
    [files |-> SaveVoiceChannels(vcs, 1, save_config(files, CcFile, cc)),
     raised |-> "AttributeError"]

\* load_system, when the control channel file exists: the voice channel
\* files vc01, vc02, ... up to the first one that is missing
RECURSIVE LoadVoiceChannels(_, _)
LoadVoiceChannels(files, i) ==
    IF VcFile(i) \notin DOMAIN files THEN <<>>
    ELSE <<files[VcFile(i)]>> \o LoadVoiceChannels(files, i + 1)

\* one mismatch message: "VC{i:02d}: {label} mismatch (expected {value})"
Mismatch(i, label, expected) == [vc |-> i, field |-> label, expected |-> expected]

\* a check that leaves the RAN out
IdFieldsNoRan ==
    << <<"system.config.nac", "NAC">>,
       <<"system.config.colorCode", "Color code">>,
       <<"system.config.siteId", "Site ID">>,
       <<"system.config.netId", "Network ID">>,
       <<"system.config.dmrNetId", "DMR Network ID">>,
       <<"system.config.sysId", "System ID">>,
       <<"system.config.rfssId", "RFSS ID">> >>

\* the fields _check_consistency skips when the control channel has no value
IdFields ==
    << <<"system.config.nac", "NAC">>,
       <<"system.config.colorCode", "Color code">>,
       <<"system.config.siteId", "Site ID">>,
       <<"system.config.netId", "Network ID">>,
       <<"system.config.dmrNetId", "DMR Network ID">>,
       <<"system.config.sysId", "System ID">>,
       <<"system.config.rfssId", "RFSS ID">>,
       <<"system.config.ran", "RAN">> >>

\* the fields it always compares
FneFields ==
    << <<"network.address", "FNE address">>,
       <<"network.port", "FNE port">> >>

\* the checks of one voice channel, in source order
VoiceMismatches(cc, vc, i) ==
    LET idCheck(f) ==
            If(~get(cc, f[1], None).isNone /\ get(vc, f[1], None) # get(cc, f[1], None),
               Mismatch(i, f[2], get(cc, f[1], None)))
        fneCheck(f) ==
            If(get(vc, f[1], None) # get(cc, f[1], None),
               Mismatch(i, f[2], get(cc, f[1], None)))
        RECURSIVE ids(_)
        ids(k) == IF k > Len(IdFields) THEN <<>> ELSE idCheck(IdFields[k]) \o ids(k + 1)
    IN  ids(1) \o fneCheck(FneFields[1]) \o fneCheck(FneFields[2])

\* TrunkingSystem._check_consistency
RECURSIVE CheckVoices(_, _, _)
CheckVoices(cc, vcs, i) ==
    IF i > Len(vcs) THEN <<>>
    ELSE VoiceMismatches(cc, vcs[i], i) \o CheckVoices(cc, vcs, i + 1)

check_consistency(cc, vcs) ==
    IF cc.isNone \/ vcs = <<>> THEN <<>> ELSE CheckVoices(cc.v, vcs, 1)

\* validate_system is left by the TypeError of a validate call
validate_system_raises(cc, vcs) ==
    validate_raises(cc.v) \/ \E i \in 1..Len(vcs) : validate_raises(vcs[i])

\* TrunkingSystem.validate_system, with a control channel loaded or built,
\* when it returns
validate_system(cc, vcs) ==
    [control_channel |-> validate(cc.v),
     voice_channel |-> [i \in 1..Len(vcs) |-> validate(vcs[i])],
     consistency |-> check_consistency(cc, vcs)]

----------------------------------------------------------------------------
(* The trunked-system builder as a state machine: one TrunkingSystem       *)
(* object and its base directory.                                          *)

MaxVc == 2       \* voice channels per build
MaxBuilds == 3   \* create_system calls on one TrunkingSystem object
MaxEdits == 1    \* set calls on the instances of a built system

Defaults ==
    [protocol |-> "p25", vc_count |-> 2, fne_address |-> "127.0.0.1",
     fne_port |-> 62031, fne_password |-> "PASSWORD", base_peer_id |-> 100000,
     base_rpc_port |-> 9890, rpc_password |-> "PASSWORD", base_rest_port |-> 8080,
     rest_password |-> NoneStr, system_identity |-> "SKYNET", nac |-> Some(659),
     color_code |-> Some(1), site_id |-> Some(1), cc_channel_id |-> 0,
     cc_channel_no |-> 0, dmr_net_id |-> None, net_id |-> None, sys_id |-> None,
     rfss_id |-> None, ran |-> None, vc_channels |-> NoneSeq]

\* the arguments create_system is called with: the defaults; a P25 system
\* with its own NAC, FNE endpoint, base peer id, ports and RPC password, and
\* REST enabled; the defaults with a NAC of 0xF80 and a network id of 0; and
\* the defaults with an empty REST password and a channel of its own for the
\* one voice channel
BuildArgs ==
    {[Defaults EXCEPT !.vc_count = n] : n \in 1..MaxVc}
    \cup {[Defaults EXCEPT !.vc_count = n, !.nac = Some(291),
                           !.fne_address = "10.0.0.5", !.fne_port = 62032,
                           !.base_peer_id = 200000, !.base_rpc_port = 9000,
                           !.rpc_password = "RPCSECRET",
                           !.rest_password = Some("REST")] : n \in 1..MaxVc}
    \cup {[Defaults EXCEPT !.vc_count = 1, !.nac = Some(3968), !.net_id = Some(0)]}
    \cup {[Defaults EXCEPT !.vc_count = 1, !.rest_password = Some(""),
                           !.vc_channels = Some(<<[channel_id |-> 2, channel_no |-> 7]>>)]}

\* every identifier and endpoint of the arguments is in its legal range
InRange(a) ==
    /\ a.vc_count >= 1
    /\ a.nac.isNone \/ (0 <= a.nac.v /\ a.nac.v <= 3967)
    /\ a.color_code.isNone \/ (0 <= a.color_code.v /\ a.color_code.v <= 15)
    /\ a.site_id.isNone \/ (1 <= a.site_id.v /\ a.site_id.v <= 254)
    /\ validate_ip_address(a.fne_address) /\ validate_port(a.fne_port)
    /\ validate_port(a.base_rpc_port + a.vc_count)

\* the values a caller sets a key to after the build
EditValues ==
    << <<"system.config.nac", Some(1)>>, <<"system.config.colorCode", Some(2)>>,
       <<"system.config.siteId", Some(3)>>, <<"system.config.netId", Some(4)>>,
       <<"system.config.dmrNetId", Some(5)>>, <<"system.config.sysId", Some(6)>>,
       <<"system.config.rfssId", Some(7)>>, <<"system.config.ran", Some(8)>>,
       <<"network.address", Some("0.0.0.0")>>, <<"network.port", Some(9)>>,
       <<"network.id", Some(7)>>, <<"network.rpcPort", Some(9000)>> >>

\* the key paths and values update_all is called with: those of the edits, a
\* key path that holds a subtree in the voice channels, and a key path
\* through a number
UpdateValues ==
    EditValues \o << <<"system.config.controlCh", Some(0)>>,
                     <<"network.id.value", Some(7)>> >>

NotValidated == [done |-> FALSE]
NoFiles == [n \in {} |-> None]

Init ==
    /\ calc = NoCalc
    /\ prev = NoCalc
    /\ entries = <<>>
    /\ file = NoFile
    /\ backup = NoFile
    /\ warnings = <<>>
    /\ snapshot = NoSnapshot
    /\ idenOp = [op |-> "none", ok |-> TRUE]
    /\ cc_config = None
    /\ vc_configs = <<>>
    /\ disk = NoFiles
    /\ built = [op |-> "none", args |-> Defaults, builds |-> 0, edits |-> 0,
                fresh |-> FALSE]
    /\ errors = NotValidated

\* system.create_system(**a)
CreateSystem ==
    /\ built.builds < MaxBuilds
    /\ \E a \in BuildArgs :
          LET r == create_system(a, vc_configs, disk)
          IN  /\ cc_config' = Some(r.cc)
              /\ vc_configs' = r.vcs
              /\ disk' = r.files
              /\ built' = [built EXCEPT !.op = "create", !.args = a,
                                        !.builds = @ + 1, !.fresh = TRUE]
    /\ errors' = NotValidated
    /\ UNCHANGED <<freqVars, idenVars>>

\* system.create_system(**a) when the rename of one existing file to its
\* backup path fails (the backup path is a directory, or may not be written):
\* the OSError leaves DVMConfig.save and create_system
CreateSystemRenameFails ==
    /\ built.builds < MaxBuilds
    /\ \E a \in BuildArgs :
          \E failing \in {CcFile} \cup {VcFile(i) : i \in 1..a.vc_count} :
             /\ failing \in DOMAIN disk
             /\ LET r == create_system_rename_fails(a, vc_configs, disk, failing)
                IN  /\ cc_config' = Some(r.cc)
                    /\ vc_configs' = r.vcs
                    /\ disk' = r.files
                    /\ built' = [op |-> "create failed", args |-> a,
                                 builds |-> built.builds + 1, edits |-> built.edits,
                                 fresh |-> FALSE, failing |-> failing, over |-> disk]
    /\ errors' = NotValidated
    /\ UNCHANGED <<freqVars, idenVars>>

\* system.load_system(): FileNotFoundError when the control file is missing
LoadSystem ==
    /\ IF CcFile \in DOMAIN disk
       THEN /\ cc_config' = Some(disk[CcFile])
            /\ vc_configs' = LoadVoiceChannels(disk, 1)
            /\ built' = [built EXCEPT !.op = "load"]
       ELSE /\ UNCHANGED <<cc_config, vc_configs>>
            /\ built' = [built EXCEPT !.op = "load failed"]
    /\ errors' = NotValidated
    /\ UNCHANGED <<disk, freqVars, idenVars>>

\* a file under base_dir is removed by the operator or another program
DeleteFile ==
    /\ \E name \in DOMAIN disk :
          disk' = [n \in DOMAIN disk \ {name} |-> disk[n]]
    /\ UNCHANGED <<cc_config, vc_configs, built, errors, freqVars, idenVars>>

\* system.validate_system(), once a control channel is built or loaded
ValidateSystem ==
    /\ ~cc_config.isNone
    /\ errors' = IF validate_system_raises(cc_config, vc_configs)
                 THEN [done |-> FALSE, err |-> "TypeError"]
                 ELSE [done |-> TRUE, val |-> validate_system(cc_config, vc_configs)]
    /\ UNCHANGED <<cc_config, vc_configs, disk, built, freqVars, idenVars>>

\* system.vc_configs[i - 1].set(key_path, value): an edit of one voice channel
SetVoice ==
    /\ built.edits < MaxEdits
    /\ \E i \in 1..Len(vc_configs), e \in 1..Len(EditValues) :
          vc_configs' = [vc_configs EXCEPT
                            ![i] = set(@, EditValues[e][1], EditValues[e][2])]
    /\ built' = [built EXCEPT !.op = "set", !.edits = @ + 1, !.fresh = FALSE]
    /\ errors' = NotValidated
    /\ UNCHANGED <<cc_config, disk, freqVars, idenVars>>

\* system.cc_config.set(key_path, value): an edit of the control channel
SetControl ==
    /\ built.edits < MaxEdits
    /\ ~cc_config.isNone
    /\ \E e \in 1..Len(EditValues) :
          cc_config' = Some(set(cc_config.v, EditValues[e][1], EditValues[e][2]))
    /\ built' = [built EXCEPT !.op = "set", !.edits = @ + 1, !.fresh = FALSE]
    /\ errors' = NotValidated
    /\ UNCHANGED <<vc_configs, disk, freqVars, idenVars>>

\* system.update_all(key_path, value), once a control channel is built or
\* loaded
UpdateAll ==
    /\ built.edits < MaxEdits
    /\ ~cc_config.isNone
    /\ \E e \in 1..Len(UpdateValues) :
          LET key_path == UpdateValues[e][1]
              value == UpdateValues[e][2]
              r == update_all(cc_config.v, vc_configs, key_path, value)
          IN  /\ cc_config' = Some(r.cc)
              /\ vc_configs' = r.vcs
              /\ built' = [op |-> IF r.ok THEN "update" ELSE "update failed",
                           args |-> built.args, builds |-> built.builds,
                           edits |-> built.edits + 1, fresh |-> FALSE,
                           key_path |-> key_path, value |-> value,
                           before |-> [cc |-> cc_config.v, vcs |-> vc_configs]]
    /\ errors' = NotValidated
    /\ UNCHANGED <<disk, freqVars, idenVars>>

\* system.save_all(), once a control channel is built or loaded
SaveAll ==
    /\ ~cc_config.isNone
    /\ LET r == save_all(cc_config.v, vc_configs, disk)
       IN  /\ disk' = r.files
           /\ built' = [op |-> "save_all", args |-> built.args,
                        builds |-> built.builds, edits |-> built.edits,
                        fresh |-> FALSE, raised |-> r.raised]
    /\ errors' = NotValidated
    /\ UNCHANGED <<cc_config, vc_configs, freqVars, idenVars>>

\* the one create_system call of a new TrunkingSystem object
FirstBuild == cc_config.isNone /\ CreateSystem

NextFreq == CalcChannelNumber \/ CalcRxFrequency \/ CalcChannelAssignment
NextIden == AddEntry \/ Save \/ Load
NextPlan == AddEntry \/ PutFile \/ Load \/ FindEntry
NextIds ==
    \/ ValidateDmrColorCode \/ ValidateDmrNetworkId \/ ValidateDmrSiteId
    \/ ValidateP25Nac \/ ValidateP25NetworkId \/ ValidateP25SystemId
    \/ ValidateP25RfssId \/ ValidateP25SiteId
    \/ ValidateNxdnRan \/ ValidateNxdnLocationId \/ ValidateNxdnSiteId
Next == CreateSystem \/ LoadSystem \/ ValidateSystem
NextDisk == CreateSystem \/ CreateSystemRenameFails \/ LoadSystem
NextDir == FirstBuild \/ DeleteFile \/ LoadSystem
NextAbort == FirstBuild \/ CreateSystemRenameFails
NextUpdate == FirstBuild \/ LoadSystem \/ UpdateAll \/ SaveAll
NextEdit ==
    \/ FirstBuild \/ LoadSystem \/ ValidateSystem
    \/ SetVoice \/ SetControl \/ UpdateAll

SpecFreq == Init /\ [][NextFreq]_vars
SpecIden == Init /\ [][NextIden]_vars
SpecPlan == Init /\ [][NextPlan]_vars
SpecIds == Init /\ [][NextIds]_vars
Spec == Init /\ [][Next]_vars
SpecEdit == Init /\ [][NextEdit]_vars
SpecDisk == Init /\ [][NextDisk]_vars
SpecDir == Init /\ [][NextDir]_vars
SpecAbort == Init /\ [][NextAbort]_vars
SpecUpdate == Init /\ [][NextUpdate]_vars

----------------------------------------------------------------------------
(* Properties of the frequency calculations (SpecFreq).                    *)

\* the last call was entry.calculate_channel_number(tx) / calculate_rx_frequency
IsChno == calc.op = "chno"
IsRx == calc.op = "rx"
IsAssign == calc.op = "assign"

InWindow(entry, tx) ==
    entry.base_freq <= tx /\ tx <= entry.base_freq + 30000000

VhfEntry == IdenEntry(0, 146000000, 62500, 6000000, 1250)

\* C4: inside the window base..base + 30,000,000 the channel number is
\* floor((tx - base) / (spacing_khz * 1000)), and for the vhf preset and
\* tx = 146,012,500 Hz it is 2 with a receive frequency of 146,612,500 Hz.
C4_ChannelNumberIsFloor ==
    /\ (IsChno /\ InWindow(calc.entry, calc.tx) /\ calc.entry.spacing > 0)
          => /\ calc.res.ok
             /\ calc.res.val =
                   ((calc.tx - calc.entry.base_freq) * 10) \div calc.entry.spacing
    /\ (IsChno /\ calc.entry = VhfEntry /\ calc.tx = 146012500)
          => calc.res = Ok(2)
    /\ (IsRx /\ calc.entry = VhfEntry /\ calc.tx = 146012500)
          => calc.res = Ok(146612500)

C6_RxIsTxPlusOffset ==
    (IsRx /\ calc.entry.input_offset % 10 = 0)
       => LET sum == calc.tx + calc.entry.input_offset \div 10
          IN  IF sum >= 0 THEN calc.res = Ok(sum)
              ELSE calc.res = Raise("ValueError", "negative")

\* the preset an entry was built from, and its declared TX range
FromPreset(entry, n) == entry = create_iden_entry_from_preset(0, n)
InDeclaredTxRange(n, tx) ==
    BAND_PRESETS[n].tx_range[1] <= tx /\ tx <= BAND_PRESETS[n].tx_range[2]

\* C7: for every preset and every TX frequency in its declared TX range the
\* channel number and the receive frequency never raise, and the channel
\* number is non-negative and does not decrease as the frequency increases.
C7_PresetRangeNeverRaises ==
    \A n \in DOMAIN BAND_PRESETS :
       /\ ((IsChno \/ IsRx) /\ FromPreset(calc.entry, n)
              /\ InDeclaredTxRange(n, calc.tx))
             => /\ calc.res.ok
                /\ IsChno => calc.res.val >= 0
       /\ (IsChno /\ prev.op = "chno" /\ FromPreset(calc.entry, n)
              /\ InDeclaredTxRange(n, calc.tx) /\ InDeclaredTxRange(n, prev.tx)
              /\ prev.tx <= calc.tx /\ prev.res.ok /\ calc.res.ok)
             => prev.res.val <= calc.res.val

\* C8: without a preset the assignment comes from the first preset, in the
\* order 800mhz, 900mhz, uhf, vhf, vhf-hi, uhf-ham, whose TX range contains
\* the frequency and whose channel number and receive frequency both succeed
\* (450.0 MHz resolves to uhf); it fails with "no suitable band" exactly when
\* no preset qualifies.
C8_FirstDeclaredPresetWins ==
    (IsAssign /\ (calc.preset.isNone \/ calc.preset.v = ""))
       => LET order == <<"800mhz", "900mhz", "uhf", "vhf", "vhf-hi", "uhf-ham">>
              m == calc.tx_freq_mhz
              entry(i) == create_iden_entry_from_preset(OrZero(calc.channel_id),
                                                        order[i])
              qualifies(i) ==
                  /\ InTxRange(BAND_PRESETS[order[i]], m)
                  /\ calculate_channel_number(entry(i), m.hz).ok
                  /\ calculate_rx_frequency(entry(i), m.hz).ok
              Q == {i \in 1..6 : qualifies(i)}
              first == CHOOSE i \in Q : \A j \in Q : i <= j
          IN  /\ (Q = {}) <=> calc.res = Raise("ValueError", "no suitable band")
              /\ Q # {} =>
                    calc.res = Ok(<<OrZero(calc.channel_id),
                                    calculate_channel_number(entry(first), m.hz).val,
                                    m.hz,
                                    calculate_rx_frequency(entry(first), m.hz).val>>)
              /\ (m = TxMhz(450000000, 0) /\ calc.channel_id.isNone)
                    => calc.res = Ok(<<0, 0, 450000000, 455000000>>)

\* 450.0 MHz, in the TX range of both uhf and uhf-ham, was resolved
C8_Witness ==
    /\ IsAssign
    /\ calc.preset.isNone
    /\ calc.tx_freq_mhz = TxMhz(450000000, 0)
    /\ calc.res.ok

----------------------------------------------------------------------------
(* Properties of the identity table (SpecIden).                            *)

\* the last operation was a load of a file that exists
Loaded == idenOp.op = "load" /\ idenOp.ok

\* b is a at p decimals: a multiple of 10^(u-p) units, at most half of that
\* away from a
AtPrecision(a, b, u, p) ==
    /\ b % Pow10(u - p) = 0
    /\ 2 * Abs(b - a) <= Pow10(u - p)

\* C9: after a save, a load into the table, whatever it held, yields the
\* saved channel ids, each with the saved base frequency and with spacing,
\* input offset and bandwidth equal to the saved ones at 2, 5 and 1 decimals;
\* saving the loaded table reproduces the file.
C9_RoundTrip ==
    Loaded =>
       /\ Keys(entries) = Keys(snapshot.entries)
       /\ \A k \in Keys(snapshot.entries) :
             LET was == Get(snapshot.entries, k)
                 now == Get(entries, k)
             IN  /\ now.channel_id = k
                 /\ now.base_freq = was.base_freq
                 /\ AtPrecision(was.spacing, now.spacing, 4, 2)
                 /\ AtPrecision(was.input_offset, now.input_offset, 7, 5)
                 /\ AtPrecision(was.bandwidth, now.bandwidth, 2, 1)
       /\ save(entries) = file.lines

\* a table of two entries was loaded back, one of them changed by the
\* persisted precision, over a table that held something else
C9_Witness ==
    /\ Loaded
    /\ Len(entries) = 2
    /\ \E k \in Keys(entries) : Get(entries, k) # Get(snapshot.entries, k)

\* a data line of the file: five fields and the empty piece a trailing comma
\* leaves
IsDataLine(line) ==
    /\ Len(line) = 6
    /\ line[1].k = "int" /\ line[2].k = "int"
    /\ line[3].k = "dec" /\ line[3].p = 2
    /\ line[4].k = "dec" /\ line[4].p = 5
    /\ line[5].k = "dec" /\ line[5].p = 1
    /\ line[6] = Nothing

\* the file has h comment lines, then one data line per saved entry in
\* strictly ascending channel_id order
HasLayout(h) ==
    LET n == Len(file.lines) - h
    IN  /\ n = Cardinality(Keys(snapshot.entries))
        /\ \A i \in 1..h : IsComment(file.lines[i])
        /\ \A i \in 1..n :
              /\ IsDataLine(file.lines[h + i])
              /\ file.lines[h + i][1].n \in Keys(snapshot.entries)
              /\ file.lines[h + i][2].n =
                    Get(snapshot.entries, file.lines[h + i][1].n).base_freq
        /\ \A i, j \in 1..n :
              i < j => file.lines[h + i][1].n < file.lines[h + j][1].n

\* C10 as stated: the saved file is a header of five comment lines, then one
\* data line per entry in ascending channel_id order, each of five fields
\* with a trailing comma.
C10_FiveLineHeader == file.exists => HasLayout(5)

\* C10, amended: the saved file is a header of six comment lines, then one
\* data line per entry in strictly ascending channel_id order whatever the
\* insertion order, each of five fields with a trailing comma.
C10_SixLineHeader == file.exists => HasLayout(6)

\* a table filled in descending channel_id order was saved
C10_Witness ==
    /\ file.exists
    /\ Len(snapshot.entries) >= 2
    /\ snapshot.entries[1].key > snapshot.entries[2].key

\* C19: when the identity-plan file is saved where a file exists, what that
\* file held is afterwards at the backup path.
C19_PlanFileBackedUp ==
    (idenOp.op = "save" /\ idenOp.over.exists) => backup = idenOp.over

----------------------------------------------------------------------------
(* Properties of the identity table over plan files of any origin          *)
(* (SpecPlan).                                                             *)

\* a line that is neither blank nor a comment
IsPlanData(line) == line # << >> /\ ~IsComment(line)

\* five or more fields, of which the first two are integers and the next
\* three are numbers
WellFormed(line) ==
    LET parts == NonEmptyParts(line)
    IN  /\ ~IsComment(line)
        /\ Len(parts) >= 5
        /\ parts[1].k = "int" /\ parts[2].k = "int"
        /\ \A i \in 3..5 : parts[i].k \in {"int", "dec"}

LineId(line) == NonEmptyParts(line)[1].n
Accepted(line) == WellFormed(line) /\ LineId(line) \in 0..15
Refused(line) == IsPlanData(line) /\ ~Accepted(line)

\* C11: a load of a file keeps an entry for every well-formed line whose
\* channel id is in 0..15 and records a warning for every other line that
\* is neither blank nor a comment, in the order of the file; the file of one
\* well-formed line and the line "garbage" gives one entry and one warning.
C11_EveryRefusedLineWarned ==
    (Loaded /\ file.exists) =>
       /\ Keys(entries) = {LineId(file.lines[i]) :
                              i \in {j \in 1..Len(file.lines) : Accepted(file.lines[j])}}
       /\ warnings = SelectSeq(file.lines, Refused)

\* what an add of e makes of the table
AddOutcome ==
    LET e == idenOp'.entry
    IN  IF e.channel_id \notin 0..15
        THEN ~idenOp'.ok /\ entries' = entries
        ELSE /\ idenOp'.ok
             /\ Keys(entries') = Keys(entries) \cup {e.channel_id}
             /\ Get(entries', e.channel_id) = e
             /\ \A k \in Keys(entries) \ {e.channel_id} :
                   Get(entries', k) = Get(entries, k)

\* every key is in 0..15, is held once, and holds the entry of that id
KeyedById ==
    /\ \A i \in 1..Len(entries) :
          /\ entries[i].key \in 0..15
          /\ entries[i].value.channel_id = entries[i].key
    /\ Cardinality(Keys(entries)) = Len(entries)

\* C12: after any sequence of adds and loads every key of the table is in
\* 0..15 and holds the entry of that channel id; an add with an id outside
\* 0..15 fails and leaves the table as it was; an add with an id in range
\* stores the entry under its id and changes no other entry.
C12_TableKeyedById ==
    /\ []KeyedById
    /\ [][idenOp'.op = "add" => AddOutcome]_vars

\* an add was refused on a table that a load with refused lines had filled
C12_Witness ==
    /\ idenOp.op = "add" /\ ~idenOp.ok
    /\ Len(entries) >= 2
    /\ warnings # << >>

\* the first entry, in iteration order, whose channel number exists
FirstFit(d, tx_freq) ==
    LET fits == {i \in 1..Len(d) : calculate_channel_number(d[i].value, tx_freq).ok}
    IN  IF fits = {} THEN None
        ELSE Some(d[CHOOSE i \in fits : \A j \in fits : i <= j].value)

\* C13: find_entry_for_frequency never raises: it returns the first entry in
\* iteration order for which the channel number exists, and none when there
\* is no such entry.
C13_FindNeverRaises ==
    idenOp.op = "find" =>
       /\ idenOp.res.ok
       /\ idenOp.res.val = FirstFit(entries, idenOp.tx_freq)

----------------------------------------------------------------------------
(* Properties of the identifier validators (SpecIds).                      *)

IsCheck(validator) == calc.op = "validate" /\ calc.validator = validator

\* the checked value is an integer within lo..hi
Within(lo, hi) == calc.value.isInt /\ lo <= calc.value.n /\ calc.value.n <= hi

\* C14: each P25, NXDN and DMR colour code validator accepts a value exactly
\* when it is an integer within its inclusive bounds: NAC 0..0xF7F, P25
\* network id 1..0xFFFFE, system id 1..0xFFE, RFSS id 1..0xFE, P25 site id
\* 1..0xFE, RAN 0..63, NXDN location id and site id 1..0xFFFFFF, colour
\* code 0..15.
C14_AcceptsExactlyWithinBounds ==
    /\ IsCheck("p25_nac") => (calc.res.valid <=> Within(0, 3967))
    /\ IsCheck("p25_network_id") => (calc.res.valid <=> Within(1, 1048574))
    /\ IsCheck("p25_system_id") => (calc.res.valid <=> Within(1, 4094))
    /\ IsCheck("p25_rfss_id") => (calc.res.valid <=> Within(1, 254))
    /\ IsCheck("p25_site_id") => (calc.res.valid <=> Within(1, 254))
    /\ IsCheck("nxdn_ran") => (calc.res.valid <=> Within(0, 63))
    /\ IsCheck("nxdn_location_id") => (calc.res.valid <=> Within(1, 16777215))
    /\ IsCheck("nxdn_site_id") => (calc.res.valid <=> Within(1, 16777215))
    /\ IsCheck("dmr_color_code") => (calc.res.valid <=> Within(0, 15))

\* the NAC 0xFFF was checked and refused
C14_Witness ==
    /\ IsCheck("p25_nac")
    /\ calc.value = AnInt(4095)
    /\ ~calc.res.valid

\* the inclusive maximum of each site model, as the claim lists them
ModelMax(field) ==
    IF field = "netId"
    THEN [m \in DMRSiteModel |->
            CASE m = "TINY" -> 511 [] m = "SMALL" -> 127
              [] m = "LARGE" -> 31 [] m = "HUGE" -> 3]
    ELSE [m \in DMRSiteModel |->
            CASE m = "TINY" -> 7 [] m = "SMALL" -> 31
              [] m = "LARGE" -> 127 [] m = "HUGE" -> 1023]

----------------------------------------------------------------------------
(* Properties of the trunked-system builder (Spec).                        *)

\* validate_system has run on the instances now in memory
Validated == errors.done

\* C1: validating a freshly built system, built with in-range identifiers
\* and not edited since, as built or as reloaded, reports no consistency
\* mismatch and no range error of any instance.
C1_FreshBuildValidatesClean ==
    (Validated /\ built.builds >= 1 /\ built.fresh /\ InRange(built.args))
       => /\ errors.val.consistency = <<>>
          /\ errors.val.control_channel = <<>>
          /\ \A i \in DOMAIN errors.val.voice_channel :
                errors.val.voice_channel[i] = <<>>

\* the ten shared fields: key path, label in the message, and whether it is
\* one of the eight protocol identifiers
SharedFields ==
    { <<"system.config.nac", "NAC", TRUE>>,
      <<"system.config.colorCode", "Color code", TRUE>>,
      <<"system.config.siteId", "Site ID", TRUE>>,
      <<"system.config.netId", "Network ID", TRUE>>,
      <<"system.config.dmrNetId", "DMR Network ID", TRUE>>,
      <<"system.config.sysId", "System ID", TRUE>>,
      <<"system.config.rfssId", "RFSS ID", TRUE>>,
      <<"system.config.ran", "RAN", TRUE>>,
      <<"network.address", "FNE address", FALSE>>,
      <<"network.port", "FNE port", FALSE>> }

\* the (instance, label) pairs the consistency check recorded
Recorded ==
    {<<errors.val.consistency[k].vc, errors.val.consistency[k].field>> :
        k \in 1..Len(errors.val.consistency)}

\* voice instance i's value of f differs from the control instance's
Differs(i, f) == get(vc_configs[i], f[1], None) # get(cc_config.v, f[1], None)

\* the control instance has a value for f
ControlHas(f) == ~get(cc_config.v, f[1], None).isNone

ToRecord ==
    {<<i, f[2]>> : <<i, f>> \in
        {x \in (1..Len(vc_configs)) \X SharedFields :
            Differs(x[1], x[2]) /\ (x[2][3] => ControlHas(x[2]))}}

C3_PeerIdsAndPortsFollowBase ==
    built.op = "create" =>
       LET a == built.args
           N == a.vc_count
           kept == Len(vc_configs) - N
           inst(i) == IF i = 0 THEN cc_config.v ELSE disk[VcFile(i)]
       IN  /\ ~cc_config.isNone /\ disk[CcFile] = cc_config.v
           /\ cc_config.v["network.id"] = Some(a.base_peer_id)
           /\ cc_config.v["network.rpcPort"] = Some(a.base_rpc_port)
           /\ kept >= 0
           /\ \A i \in 1..N :
                 /\ vc_configs[kept + i] = disk[VcFile(i)]
                 /\ disk[VcFile(i)]["network.id"] = Some(a.base_peer_id + i)
                 /\ disk[VcFile(i)]["network.rpcPort"] = Some(a.base_rpc_port + i)
           /\ \A i, j \in 0..N :
                 i < j => /\ inst(i)["network.id"].v < inst(j)["network.id"].v
                          /\ inst(i)["network.rpcPort"].v < inst(j)["network.rpcPort"].v

\* a build of two voice channels from base peer id 100000 wrote 100002 to vc02
C3_Witness ==
    /\ built.op = "create"
    /\ built.args.vc_count = 2
    /\ built.args.base_peer_id = 100000
    /\ disk[VcFile(2)]["network.id"] = Some(100002)

\* the value at key_path is present and the validator refuses it
Refuses(config, key_path, validator(_)) ==
    /\ ~get(config, key_path, None).isNone
    /\ ~validator(AnInt(get(config, key_path, None).v)).valid

\* a P25 identifier of the instance is outside the bounds of network_ids.py
OutOfBounds(config) ==
    \/ Refuses(config, "system.config.nac", validate_p25_nac)
    \/ Refuses(config, "system.config.netId", validate_p25_network_id)
    \/ Refuses(config, "system.config.sysId", validate_p25_system_id)
    \/ Refuses(config, "system.config.rfssId", validate_p25_rfss_id)
    \/ Refuses(config, "system.config.siteId", validate_p25_site_id)

\* C16: validate_system reports, under the key of its role, an error for
\* every instance one of whose P25 identifiers is outside the bounds of the
\* identifier validators (a NAC in 0xF80..0xFFF, or a network, system, RFSS
\* or site id of 0).
C16_OutOfBoundsReported ==
    Validated =>
       /\ OutOfBounds(cc_config.v) => errors.val.control_channel # << >>
       /\ \A i \in 1..Len(vc_configs) :
             OutOfBounds(vc_configs[i]) => errors.val.voice_channel[i] # << >>

\* the peer id or a port of voice channel i is not the control channel's
\* plus i
Drifted(i) ==
    LET cc == cc_config.v
        vc == vc_configs[i]
        off(k) == get(vc, k, Some(0)).v # get(cc, k, Some(0)).v + i
    IN  \/ off("network.id")
        \/ off("network.rpcPort")
        \/ TruthyBool(get(cc, "network.restEnable", None)) /\ off("network.restPort")

\* C17: validate_system reports an error whenever the peer id of voice
\* channel i is not the control channel's peer id plus i, or its RPC port
\* (or REST port, when REST is enabled) is not the control channel's plus i.
C17_DriftReported ==
    Validated =>
       \A i \in 1..Len(vc_configs) :
          Drifted(i) =>
             \/ errors.val.voice_channel[i] # << >>
             \/ errors.val.consistency # << >>

\* C18: a build whose arguments hold an out-of-range identifier stops before
\* the offending instance is persisted: no file under base_dir holds the
\* out-of-range NAC.
C18_OutOfRangeNeverPersisted ==
    (built.op = "create" /\ ~InRange(built.args)) =>
       \A n \in DOMAIN disk :
          get(disk[n], "system.config.nac", None) # built.args.nac

\* the roster of the control channel in memory
Roster == cc_config.v["system.config.voiceChNo"].v

\* C22: after a build of N voice channels the roster of the control channel
\* has N entries in ordinal order; entry i has the channel id, the channel
\* number and the RPC port of voice channel i; and every voice channel's
\* reference to the control channel has the control channel's RPC port.
C22_RosterMatchesVoiceChannels ==
    built.op = "create" =>
       /\ Len(Roster) = built.args.vc_count
       /\ \A i \in 1..built.args.vc_count :
             LET vc == disk[VcFile(i)]
             IN  /\ Some(Roster[i].channelId) = vc["system.config.channelId"]
                 /\ Some(Roster[i].channelNo) = vc["system.config.channelNo"]
                 /\ Some(Roster[i].rpcPort) = vc["network.rpcPort"]
                 /\ vc["system.config.controlCh.rpcPort"] = cc_config.v["network.rpcPort"]

\* a build of two voice channels from RPC port 9000 listed 9002 for vc02
C22_Witness ==
    /\ built.op = "create"
    /\ built.args.vc_count = 2
    /\ built.args.base_rpc_port = 9000
    /\ Roster[2].rpcPort = 9002

\* REST is enabled on the instance
RestEnabled(config) == TruthyBool(get(config, "network.restEnable", None))

\* C23: in a built system every instance on which REST is enabled has a REST
\* port: the base REST port on the control channel and the base REST port
\* plus i on voice channel i, whatever REST password enabled it; an instance
\* on which REST is not enabled has the REST port of its template.
C23_RestPortsFollowBase ==
    built.op = "create" =>
       LET a == built.args
           stamped(config, template, port) ==
              IF RestEnabled(config)
              THEN get(config, "network.restPort", None) = Some(port)
              ELSE get(config, "network.restPort", None)
                      = get(get_template(template), "network.restPort", None)
       IN  /\ stamped(cc_config.v, "control-channel-p25", a.base_rest_port)
           /\ \A i \in 1..a.vc_count :
                 stamped(disk[VcFile(i)], "voice-channel", a.base_rest_port + i)

C25_OnlyTheLatestBuildInMemory ==
    built.op = "create" =>
       /\ cc_config = Some(ControlConfig(built.args))
       /\ Len(vc_configs) = built.args.vc_count
       /\ \A i \in 1..Len(vc_configs) : vc_configs[i] = VoiceConfig(built.args, i)

\* the instances before and after the last update_all, as pairs
UpdatedPairs ==
    {<<built.before.cc, cc_config.v>>}
    \cup {<<built.before.vcs[i], vc_configs[i]>> : i \in 1..Len(vc_configs)}

\* the instance now has the value at the key path, and apart from the key
\* paths in gone it holds what the instance before held
SetIn(was, now, gone) ==
    /\ now[built.key_path] = built.value
    /\ DOMAIN now = (DOMAIN was \ gone) \cup {built.key_path}
    /\ \A k \in DOMAIN now \ {built.key_path} : now[k] = was[k]

\* validate_system changes no instance and no file
ValidateChangesNothing ==
    errors' # NotValidated => UNCHANGED <<cc_config, vc_configs, disk>>

C28_LoadYieldsTheLatestBuild ==
    built.op = "load" =>
       /\ Len(vc_configs) = built.args.vc_count
       /\ \A i \in 1..Len(vc_configs) : vc_configs[i] = VoiceConfig(built.args, i)

\* C30: in a built system the RPC password the roster of the control
\* channel records for voice channel i is the RPC password of voice channel
\* i, and the control channel RPC password each voice channel records is the
\* RPC password of the control channel.
C30_RpcPasswordsAgree ==
    built.op = "create" =>
       \A i \in 1..built.args.vc_count :
          /\ Roster[i].rpcPassword = disk[VcFile(i)]["network.rpcPassword"].v
          /\ disk[VcFile(i)]["system.config.controlCh.rpcPassword"]
                = cc_config.v["network.rpcPassword"]

----------------------------------------------------------------------------
(* Properties of the update pass load_system, update_all, save_all          *)
(* (SpecUpdate).                                                            *)

\* C29: save_all writes the control channel file and every voice channel
\* file of the plan to its own path and returns without an error.
C29_SaveAllReturns ==
    built.op = "save_all" =>
       /\ built.raised = "none"
       /\ disk[CcFile] = cc_config.v
       /\ \A i \in 1..Len(vc_configs) : disk[VcFile(i)] = vc_configs[i]

----------------------------------------------------------------------------
(* Properties of load_system over directories with missing files (SpecDir). *)

\* the step is a load_system call
IsLoadStep == built'.op \in {"load", "load failed"} /\ disk' = disk

\* the voice channel files vc01..vcK are present and vc<K+1> is missing
FirstGapAfter(K) ==
    /\ \A i \in 1..K : VcFile(i) \in DOMAIN disk
    /\ VcFile(K + 1) \notin DOMAIN disk

\* C21: load_system fails when the control channel file is missing and then
\* leaves the instances in memory as they were; otherwise it loads the
\* control channel file and exactly the voice channel files vc01..vcK, where
\* vc<K+1> is the first one missing, whatever files follow the gap.
C21_LoadsUpToTheFirstGap ==
    [][IsLoadStep =>
         IF CcFile \notin DOMAIN disk
         THEN /\ built'.op = "load failed"
              /\ cc_config' = cc_config /\ vc_configs' = vc_configs
         ELSE /\ built'.op = "load"
              /\ cc_config' = Some(disk[CcFile])
              /\ \E K \in 0..Cardinality(DOMAIN disk) :
                    /\ FirstGapAfter(K)
                    /\ Len(vc_configs') = K
                    /\ \A i \in 1..K : vc_configs'[i] = disk[VcFile(i)]]_vars

\* a load found vc02 but not vc01, and holds no voice channel
C21_Witness ==
    /\ built.op = "load"
    /\ VcFile(2) \in DOMAIN disk /\ VcFile(1) \notin DOMAIN disk
    /\ vc_configs = << >>

----------------------------------------------------------------------------
(* Properties of the files under base_dir when a rename fails (SpecDisk).  *)

\* the file name holds what the build with arguments a writes to it
WrittenBy(a, name) ==
    /\ name \in DOMAIN disk
    /\ disk[name] = IF name = CcFile THEN ControlConfig(a) ELSE VoiceConfig(a, name.idx)

\* C20: when the rename of one file to its backup path fails during a build,
\* that file keeps what it held and every other file of the build, the later
\* ones included, holds the new content.
C20_SiblingsStillWritten ==
    built.op = "create failed" =>
       /\ disk[built.failing] = built.over[built.failing]
       /\ \A name \in ({CcFile} \cup {VcFile(i) : i \in 1..built.args.vc_count})
                        \ {built.failing} :
             WrittenBy(built.args, name)

\* the voice channel files of ordinal k and above, backups included, that
\* are in the directory or were there before the build
FromOrdinal(k) ==
    {name \in DOMAIN disk \cup DOMAIN built.over : name.role = "vc" /\ name.idx >= k}

====
